---- MODULE Spec2Model ----
(***************************************************************************)
(* State-machine model of the LoginPage component                          *)
(* (src/src/app/login/page.tsx).                                           *)
(*                                                                         *)
(* The component owns four pieces of React state (email, password,         *)
(* isLoading, isGoogleLoading) and talks to three collaborators: the auth  *)
(* context (login, loginWithGoogle), the toast sink and the                *)
(* onSwitchToRegister callback.  JavaScript runs each handler to its first *)
(* await without interleaving, so every action below is one such run; the  *)
(* continuation of handleSubmit after `await login(...)` is a separate     *)
(* action taken when the promise settles.                                  *)
(*                                                                         *)
(* Strings typed into the fields are sequences of characters so that       *)
(* String.prototype.trim is computed rather than assumed.                  *)
(***************************************************************************)
EXTENDS Integers, Sequences, FiniteSets, TLC

\* ---------------------------------------------------------------- bounds
MaxLen == 2          \* longest field value that is typed
MaxInFlight == 2     \* cap on concurrently pending login promises

\* ---------------------------------------------------------------- strings
Chars == {" ", "a"}

Strings == UNION {[1..n -> Chars] : n \in 0..MaxLen}

IsWhiteSpace(c) == c = " "

RECURSIVE TrimStart(_)
TrimStart(s) ==
    IF s = <<>> THEN s
    ELSE IF IsWhiteSpace(Head(s)) THEN TrimStart(Tail(s)) ELSE s

RECURSIVE TrimEnd(_)
TrimEnd(s) ==
    IF s = <<>> THEN s
    ELSE IF IsWhiteSpace(s[Len(s)]) THEN TrimEnd(SubSeq(s, 1, Len(s) - 1)) ELSE s

\* a trim that forgets to strip anything
Trim_NoStrip(s) == s

\* String.prototype.trim
Trim(s) == TrimEnd(TrimStart(s))

\* !s for a string s
Not(s) == s = <<>>

\* ---------------------------------------------------------------- rejection values
Undefined == "<undefined>"

FallbackMessage == "login failed. please try again."

ServerErrors == {Undefined, "", "invalid credentials"}

Messages == {"", "Network Error"}

\* The values a rejected login promise can carry, by the features the catch
\* block inspects: truthy object or not, 'response' in error,
\* error.response?.data?.error, instanceof Error, error.message.
Rejections ==
    {[isObject |-> FALSE, hasResponse |-> FALSE, serverError |-> Undefined,
      isError |-> FALSE, message |-> Undefined]}
    \cup
    {r \in [isObject : {TRUE}, hasResponse : BOOLEAN, serverError : ServerErrors,
            isError : BOOLEAN, message : Messages \cup {Undefined}] :
        /\ (~r.hasResponse => r.serverError = Undefined)
        /\ (r.isError <=> r.message # Undefined)}

\* a || b on possibly-undefined strings
Or(a, b) == IF a = Undefined \/ a = "" THEN b ELSE a

\* the message derivation of the catch block
ErrorMessage(error) ==
    IF error.isObject /\ error.hasResponse
    THEN Or(error.serverError, FallbackMessage)
    ELSE IF error.isError THEN error.message
    ELSE FallbackMessage

\* ---------------------------------------------------------------- collaborator calls
Toast(t, d, v) == [call |-> "toast", title |-> t, description |-> d, variant |-> v]

LoginCall(e, p) == [call |-> "login", email |-> e, password |-> p]

GoogleCall == [call |-> "loginWithGoogle"]

ConsoleError == [call |-> "console.error"]

SwitchCall == [call |-> "onSwitchToRegister"]

\* ---------------------------------------------------------------- state
VARIABLES
    email,            \* useState('')
    password,         \* useState('')
    isLoading,        \* useState(false)
    isGoogleLoading,  \* useState(false)
    inFlight,         \* number of login promises not yet settled
    pc,               \* "idle", or "call" inside handleGoogleLogin before loginWithGoogle()
    redirecting,      \* loginWithGoogle() has returned normally
    event,            \* the handler step taken last, with its input
    effects           \* collaborator calls made by that step, in order

vars == <<email, password, isLoading, isGoogleLoading, inFlight, pc, redirecting,
          event, effects>>

Init ==
    /\ email = <<>>
    /\ password = <<>>
    /\ isLoading = FALSE
    /\ isGoogleLoading = FALSE
    /\ inFlight = 0
    /\ pc = "idle"
    /\ redirecting = FALSE
    /\ event = <<"mount">>
    /\ effects = <<>>

\* ---------------------------------------------------------------- rendered controls
\* The disabled attribute of each button as rendered from the current state.
\* React commits the state updates of a click or submit handler before the
\* browser dispatches the next event, so a handler's guard reads these.
\* submit button without the isLoading disjunct
SubmitDisabled_NoLoading == isGoogleLoading

\* submit button without the isGoogleLoading disjunct
SubmitDisabled_NoGoogle == isLoading

SubmitDisabled == isLoading \/ isGoogleLoading

\* Google button without the isLoading disjunct
GoogleDisabled_NoLoading == isGoogleLoading

GoogleDisabled == isGoogleLoading \/ isLoading

\* ---------------------------------------------------------------- field edits
setEmail(v) ==
    /\ pc = "idle"
    /\ email' = v
    /\ event' = <<"setEmail", v>>
    /\ effects' = <<>>
    /\ UNCHANGED <<password, isLoading, isGoogleLoading, inFlight, pc, redirecting>>

setPassword(v) ==
    /\ pc = "idle"
    /\ password' = v
    /\ event' = <<"setPassword", v>>
    /\ effects' = <<>>
    /\ UNCHANGED <<email, isLoading, isGoogleLoading, inFlight, pc, redirecting>>

\* ---------------------------------------------------------------- handleSubmit
handleSubmit ==
    /\ pc = "idle"
    /\ ~SubmitDisabled
    /\ inFlight < MaxInFlight
    /\ event' = <<"handleSubmit">>
    /\ IF Not(Trim(email))
       THEN /\ effects' = <<Toast("error", "email is required", "destructive")>>
            /\ UNCHANGED <<isLoading, inFlight>>
       ELSE IF Not(Trim(password))
       THEN /\ effects' = <<Toast("error", "password is required", "destructive")>>
            /\ UNCHANGED <<isLoading, inFlight>>
       ELSE /\ isLoading' = TRUE
            /\ inFlight' = inFlight + 1
            /\ effects' = <<LoginCall(email, password)>>
    /\ UNCHANGED <<email, password, isGoogleLoading, pc, redirecting>>

\* a success path that also resets the form
loginResolves_ResetForm ==
    /\ pc = "idle"
    /\ inFlight > 0
    /\ inFlight' = inFlight - 1
    /\ effects' = <<Toast("success", "login successful", "default")>>
    /\ isLoading' = FALSE
    /\ email' = <<>>
    /\ password' = <<>>
    /\ event' = <<"login:resolved">>
    /\ UNCHANGED <<isGoogleLoading, pc, redirecting>>

\* await login(...) resolves: try body continues, then finally
loginResolves ==
    /\ pc = "idle"
    /\ inFlight > 0
    /\ inFlight' = inFlight - 1
    /\ effects' = <<Toast("success", "login successful", "default")>>
    /\ isLoading' = FALSE
    /\ event' = <<"login:resolved">>
    /\ UNCHANGED <<email, password, isGoogleLoading, pc, redirecting>>

\* a catch block with no finally behind it
loginRejects_NoFinally(error) ==
    /\ pc = "idle"
    /\ inFlight > 0
    /\ inFlight' = inFlight - 1
    /\ effects' = <<Toast("login failed", ErrorMessage(error), "destructive")>>
    /\ event' = <<"login:rejected", error>>
    /\ UNCHANGED <<email, password, isLoading, isGoogleLoading, pc, redirecting>>

\* a catch block that falls through to the success notification
loginRejects_AlsoSuccess(error) ==
    /\ pc = "idle"
    /\ inFlight > 0
    /\ inFlight' = inFlight - 1
    /\ effects' = <<Toast("login failed", ErrorMessage(error), "destructive"),
                    Toast("success", "login successful", "default")>>
    /\ isLoading' = FALSE
    /\ event' = <<"login:rejected", error>>
    /\ UNCHANGED <<email, password, isGoogleLoading, pc, redirecting>>

\* await login(...) rejects with error: catch, then finally
loginRejects(error) ==
    /\ pc = "idle"
    /\ inFlight > 0
    /\ inFlight' = inFlight - 1
    /\ effects' = <<Toast("login failed", ErrorMessage(error), "destructive")>>
    /\ isLoading' = FALSE
    /\ event' = <<"login:rejected", error>>
    /\ UNCHANGED <<email, password, isGoogleLoading, pc, redirecting>>

\* ---------------------------------------------------------------- handleGoogleLogin
\* click on the Google button: setIsGoogleLoading(true), about to call
handleGoogleLogin ==
    /\ pc = "idle"
    /\ ~GoogleDisabled
    /\ isGoogleLoading' = TRUE
    /\ pc' = "call"
    /\ event' = <<"handleGoogleLogin">>
    /\ effects' = <<>>
    /\ UNCHANGED <<email, password, isLoading, inFlight, redirecting>>

\* a handler that clears the flag once the call has returned
loginWithGoogleReturns_Reset ==
    /\ pc = "call"
    /\ pc' = "idle"
    /\ redirecting' = TRUE
    /\ isGoogleLoading' = FALSE
    /\ event' = <<"loginWithGoogle:returned">>
    /\ effects' = <<GoogleCall>>
    /\ UNCHANGED <<email, password, isLoading, inFlight>>

\* loginWithGoogle() returns: the handler ends, flag left set
loginWithGoogleReturns ==
    /\ pc = "call"
    /\ pc' = "idle"
    /\ redirecting' = TRUE
    /\ event' = <<"loginWithGoogle:returned">>
    /\ effects' = <<GoogleCall>>
    /\ UNCHANGED <<email, password, isLoading, isGoogleLoading, inFlight>>

\* a catch block that forgets setIsGoogleLoading(false)
loginWithGoogleThrows_NoReset ==
    /\ pc = "call"
    /\ pc' = "idle"
    /\ event' = <<"loginWithGoogle:threw">>
    /\ effects' = <<GoogleCall, ConsoleError,
                    Toast("error", "failed to start google login. please try again.",
                          "destructive")>>
    /\ UNCHANGED <<email, password, isLoading, isGoogleLoading, inFlight, redirecting>>

\* loginWithGoogle() throws synchronously: the catch block runs
loginWithGoogleThrows ==
    /\ pc = "call"
    /\ pc' = "idle"
    /\ isGoogleLoading' = FALSE
    /\ event' = <<"loginWithGoogle:threw">>
    /\ effects' = <<GoogleCall, ConsoleError,
                    Toast("error", "failed to start google login. please try again.",
                          "destructive")>>
    /\ UNCHANGED <<email, password, isLoading, inFlight, redirecting>>

\* ---------------------------------------------------------------- switch to register
onSwitchToRegister ==
    /\ pc = "idle"
    /\ event' = <<"onSwitchToRegister">>
    /\ effects' = <<SwitchCall>>
    /\ UNCHANGED <<email, password, isLoading, isGoogleLoading, inFlight, pc, redirecting>>

\* ---------------------------------------------------------------- specification
Next ==
    \/ \E v \in Strings : setEmail(v)
    \/ \E v \in Strings : setPassword(v)
    \/ handleSubmit
    \/ loginResolves
    \/ \E error \in Rejections : loginRejects(error)
    \/ handleGoogleLogin
    \/ loginWithGoogleReturns
    \/ loginWithGoogleThrows
    \/ onSwitchToRegister

Spec == Init /\ [][Next]_vars

\* Every pending login promise eventually settles, and a handler that has
\* started runs to completion.
FairSpec ==
    /\ Spec
    /\ WF_vars(loginResolves \/ \E error \in Rejections : loginRejects(error))
    /\ WF_vars(loginWithGoogleReturns \/ loginWithGoogleThrows)

TypeOK ==
    /\ email \in Strings
    /\ password \in Strings
    /\ isLoading \in BOOLEAN
    /\ isGoogleLoading \in BOOLEAN
    /\ inFlight \in 0..MaxInFlight
    /\ pc \in {"idle", "call"}
    /\ redirecting \in BOOLEAN

\* ---------------------------------------------------------------- observation helpers
IsBlank(s) == \A i \in 1..Len(s) : s[i] = " "

IsToast(e, t, d, v) ==
    /\ e.call = "toast"
    /\ e.title = t
    /\ e.description = d
    /\ e.variant = v

ToastCount(fx) == Cardinality({i \in 1..Len(fx) : fx[i].call = "toast"})

AuthCallCount(fx) ==
    Cardinality({i \in 1..Len(fx) : fx[i].call \in {"login", "loginWithGoogle"}})

HasSuccessToast(fx) ==
    \E i \in 1..Len(fx) : fx[i].call = "toast" /\ fx[i].title = "success"

GoogleErrorText == "failed to start google login. please try again."

\* ---------------------------------------------------------------- C1
\* C1: a submit with a blank (empty or whitespace-only) email or password
\* never calls AuthService.login, emits exactly the destructive validation
\* toast ('email is required' if the email is blank, else 'password is
\* required'), and leaves isLoading false.
C1_BlankSubmitRejected ==
    (event[1] = "handleSubmit" /\ (IsBlank(email) \/ IsBlank(password))) =>
        /\ AuthCallCount(effects) = 0
        /\ inFlight = 0
        /\ ~isLoading
        /\ Len(effects) = 1
        /\ IsToast(effects[1], "error",
                   IF IsBlank(email) THEN "email is required"
                                     ELSE "password is required",
                   "destructive")

C1_Witness ==
    /\ event[1] = "handleSubmit"
    /\ email = <<" ">>
    /\ password = <<"a">>
    /\ ToastCount(effects) = 1
    /\ ~isLoading

\* ---------------------------------------------------------------- C2
\* C2: at most one login call is in flight; an accepted submission (both
\* fields non-blank) calls login exactly once with the field values, and
\* while a call is in flight isLoading is set and the submit control is
\* disabled.
C2_AtMostOneInFlight ==
    /\ inFlight <= 1
    /\ (inFlight > 0 => isLoading /\ SubmitDisabled)
    /\ (event[1] = "handleSubmit" /\ ~IsBlank(email) /\ ~IsBlank(password)) =>
          /\ Len(effects) = 1
          /\ effects[1].call = "login"
          /\ effects[1].email = email
          /\ effects[1].password = password
          /\ inFlight = 1

C2_Witness ==
    /\ event[1] = "handleSubmit"
    /\ inFlight = 1
    /\ AuthCallCount(effects) = 1

\* ---------------------------------------------------------------- C3
\* the message C3 expects for a rejection value; an Error whose own message
\* is the empty string is left open between that message and the fallback
C3_Expected(error) ==
    IF error.serverError \notin {Undefined, ""} THEN {error.serverError}
    ELSE IF error.isError /\ error.message # "" THEN {error.message}
    ELSE IF error.isError THEN {"", FallbackMessage}
    ELSE {FallbackMessage}

\* C3: a rejected login shows, in the 'login failed' toast, the server error
\* string if there is one, otherwise the error's own message, otherwise the
\* generic fallback, for every shape of rejection value.
C3_MessagePreference ==
    event[1] = "login:rejected" =>
        /\ Len(effects) = 1
        /\ effects[1].call = "toast"
        /\ effects[1].title = "login failed"
        /\ effects[1].description \in C3_Expected(event[2])

\* ---------------------------------------------------------------- C4
\* C4: when a login call settles (resolved or rejected with any value)
\* isLoading is false afterwards, and, every login call settling eventually,
\* isLoading true leads to isLoading false.
C4_LoadingAlwaysCleared ==
    /\ [](event[1] \in {"login:resolved", "login:rejected"} => ~isLoading)
    /\ (isLoading ~> ~isLoading)

C4_Witness ==
    /\ event[1] = "login:rejected"
    /\ event[2].isObject = FALSE
    /\ ~isLoading
    /\ inFlight = 0

\* ---------------------------------------------------------------- C5
\* C5: isGoogleLoading is already true when loginWithGoogle is about to be
\* called, and once the call has returned without throwing the flag is true
\* in every later state.
C5_GoogleFlagStaysSet ==
    /\ (pc = "call" => isGoogleLoading)
    /\ (redirecting => isGoogleLoading)

C5_Witness ==
    /\ redirecting
    /\ isGoogleLoading
    /\ event[1] = "setEmail"

\* ---------------------------------------------------------------- C6
\* C6: when loginWithGoogle throws synchronously exactly one toast, the
\* generic destructive one, is shown, isGoogleLoading is false again and both
\* controls are enabled.
C6_GoogleThrowRecovered ==
    event[1] = "loginWithGoogle:threw" =>
        /\ ToastCount(effects) = 1
        /\ IsToast(effects[Len(effects)], "error", GoogleErrorText, "destructive")
        /\ ~isGoogleLoading
        /\ ~SubmitDisabled
        /\ ~GoogleDisabled
        /\ pc = "idle"

C6_Witness ==
    /\ event[1] = "loginWithGoogle:threw"
    /\ ~isGoogleLoading
    /\ ~redirecting

\* ---------------------------------------------------------------- C7
\* C7: a submit attempt produces exactly one toast: the destructive
\* validation toast at once if a field is blank, otherwise none until the
\* login call settles, then the default 'success' toast iff it resolved and a
\* destructive 'login failed' toast iff it rejected; a success toast is
\* never shown by any other step.
C7_OneNotificationPerAttempt ==
    /\ (event[1] = "handleSubmit" /\ (IsBlank(email) \/ IsBlank(password))) =>
          /\ ToastCount(effects) = 1
          /\ effects[1].title = "error"
          /\ effects[1].variant = "destructive"
    /\ (event[1] = "handleSubmit" /\ ~(IsBlank(email) \/ IsBlank(password))) =>
          /\ ToastCount(effects) = 0
          /\ inFlight = 1
    /\ event[1] = "login:resolved" =>
          /\ Len(effects) = 1
          /\ IsToast(effects[1], "success", "login successful", "default")
    /\ event[1] = "login:rejected" =>
          /\ Len(effects) = 1
          /\ effects[1].call = "toast"
          /\ effects[1].title = "login failed"
          /\ effects[1].variant = "destructive"
    /\ (HasSuccessToast(effects) => event[1] = "login:resolved")

C7_Witness ==
    /\ event[1] = "login:resolved"
    /\ ToastCount(effects) = 1
    /\ inFlight = 0

\* ---------------------------------------------------------------- C8
\* C8: email changes only in a setEmail step and password only in a
\* setPassword step; an onSwitchToRegister step changes neither loading flag
\* and calls only the callback.
C8_FieldsChangeOnlyByEdits ==
    [][ /\ (email' # email => event'[1] = "setEmail")
        /\ (password' # password => event'[1] = "setPassword")
        /\ (event'[1] = "onSwitchToRegister" =>
              /\ isLoading' = isLoading
              /\ isGoogleLoading' = isGoogleLoading
              /\ AuthCallCount(effects') = 0
              /\ ToastCount(effects') = 0) ]_vars

C8_Witness ==
    /\ event[1] = "login:resolved"
    /\ ~IsBlank(email)
    /\ ~IsBlank(password)

\* ---------------------------------------------------------------- C9
\* C9: isLoading and isGoogleLoading are never both true.
C9_FlagsExclusive == ~(isLoading /\ isGoogleLoading)

C9_Witness ==
    /\ isLoading
    /\ inFlight = 1
    /\ GoogleDisabled
    /\ ~isGoogleLoading
    /\ event[1] = "onSwitchToRegister"

\* ---------------------------------------------------------------- C10
\* C10: once loginWithGoogle has returned without throwing, both controls
\* are disabled and no later step calls login or loginWithGoogle.
C10_NoAuthAfterRedirect ==
    [][ redirecting =>
          /\ SubmitDisabled'
          /\ GoogleDisabled'
          /\ AuthCallCount(effects') = 0
          /\ pc' = "idle"
          /\ redirecting' ]_vars

C10_Witness ==
    /\ redirecting
    /\ SubmitDisabled
    /\ GoogleDisabled
    /\ event[1] = "setPassword"
    /\ ~IsBlank(email)
    /\ ~IsBlank(password)
====
